---- MODULE Spec2Model ----
(***************************************************************************)
(* Session and refresh-token lifecycle of medilink's authentication app:  *)
(* LoginService.authenticate (Login.py), RefreshService.refresh           *)
(* (refresh_service.py), the JWT helpers (jwt_tokens.py) and login_view   *)
(* (views.py), running against the PostgREST store (tables sessions,      *)
(* session_tokens, users).  Every request is a process whose steps are    *)
(* its store calls, so that concurrent requests interleave call by call.  *)
(***************************************************************************)
EXTENDS Integers, Sequences, FiniteSets, TLC

\* ---------------------------------------------------------------- bounds
MaxSessions == 1
MaxTokens == 3
MaxFaults == 1
MaxNow == 15
TickDays == 15
MaxDeadlines == 2
MaxUsers == 1
MaxDevices == 2
MaxAppointments == 2

\* ------------------------------------------------------ program constants
REFRESH_TOKEN_TTL_DAYS == 14
ACCESS_TOKEN_TTL_SECONDS == 15 * 60
USER_JWT_TTL_SECONDS == 15 * 60
SERVICE_JWT_TTL_SECONDS == 5 * 60
JWT_AUDIENCE == "medilink"
SecondsPerDay == 24 * 60 * 60

RefreshProcs == {"r1", "r2"}
LoginProcs == {"l1"}

VARIABLES
    now,             \* the wall clock, in days
    sessions,        \* table sessions: row i has id i
    session_tokens,  \* table session_tokens: row i has id i
    issued,          \* number of refresh secrets drawn from secrets.token_bytes
    faults,          \* number of store calls that failed so far
    rq,              \* the RefreshService requests
    lg,              \* the LoginService requests
    out,             \* the request answered in the last step, and the answer
    registered,      \* table users: the rows posted by registrations
    seen,            \* history: last login_view response per failure case
    appointments     \* table appointments: row i has id i

vars ==
    <<now, sessions, session_tokens, issued, faults, rq, lg, out, registered,
      seen, appointments>>

\* ------------------------------------------------------------- timestamps
\* A JSON null / Python None in a nullable timestamp column.
NULL == <<>>

\* datetime.isoformat(): the store holds timestamps as ISO-8601 strings.
isoformat(t) == <<t, "+00:00">>

_now_utc == isoformat(now)

_expiry_after_days(days) == isoformat(now + days)

_parse_timestamp(ts_str) == ts_str[1]

\* Python truthiness of row.get(column): None is falsy, a timestamp string is not.
IsSet(v) == v # NULL

\* ---------------------------------------------------------------- digests
\* hashlib.sha256(token.encode()).digest(), and bytes.hex() of a digest.
Sha256(token) == <<"sha256", token>>

Hex(bytes) == <<"hex", bytes>>

\* refresh_service._hash_token
_hash_token(token) == Sha256(token)

\* The token's own bytes, hex-encoded, in place of their digest.
Login_generate_refresh_token_Raw(k) == <<k, Hex(<<"utf-8", k>>)>>

\* A login that stores the hex of another digest than the one refresh()
\* looks tokens up by.
Login_generate_refresh_token_Md5(k) == <<k, Hex(<<"md5", k>>)>>

\* Login._generate_refresh_token: the k-th draw of secrets.token_bytes(32);
\* returns (token, hexdigest).
Login_generate_refresh_token(k) == <<k, Hex(Sha256(k))>>

\* refresh_service._generate_refresh_token: returns (token, digest bytes).
_generate_refresh_token(k) == <<k, Sha256(k)>>

\* ------------------------------------------------------------ credentials
Argon2(password) == <<"argon2id", password>>

\* PasswordHasher.verify: "ok", or the exception it raises.
PH_verify(hash, password) ==
    IF hash = Argon2(password) THEN "ok" ELSE "VerifyMismatchError"

\* Table users, read through rpc/get_user_for_login and GET /users.
Users == [alice |-> [id |-> "u1", p_role |-> "patient",
                     password_hash |-> Argon2("correct")]]

Identifiers == {"alice", "nobody", ""}
Passwords == {"correct", "wrong", ""}

get_user_for_login(ident) ==
    IF ident \in DOMAIN Users THEN <<Users[ident]>> ELSE <<>>

users_by_id(id) ==
    LET m == {u \in DOMAIN Users : Users[u].id = id}
    IN  IF m = {} THEN <<>> ELSE <<Users[CHOOSE u \in m : TRUE]>>

\* -------------------------------------------------------------------- JWT
\* jwt_tokens._encode_jwt: adds aud, iat, exp and signs; the signed token is
\* modelled by the claim set it carries.
_encode_jwt(payload, ttl_seconds) ==
    [c \in DOMAIN payload \cup {"aud", "iat", "exp"} |->
        IF c = "aud" THEN <<JWT_AUDIENCE>>
        ELSE IF c = "iat" THEN <<now * SecondsPerDay>>
        ELSE IF c = "exp" THEN <<now * SecondsPerDay + ttl_seconds>>
        ELSE <<payload[c]>>]

\* A user token that is built as the service token is.
generate_user_access_token_AsService(kwargs) ==
    [raised |-> "",
     token |-> _encode_jwt([role |-> "medilink_ops", iss |-> "medilink-backend"],
                           SERVICE_JWT_TTL_SECONDS)]

\* jwt_tokens.generate_user_access_token(user_id, role), called with the
\* keyword arguments kwargs.  Python binds the keywords to the parameters
\* first: an unexpected or a missing keyword raises TypeError.
generate_user_access_token(kwargs) ==
    IF DOMAIN kwargs # {"user_id", "role"}
    THEN [raised |-> "TypeError"]
    ELSE IF kwargs.user_id = "" \/ kwargs.role = ""
    THEN [raised |-> "ValueError"]
    ELSE [raised |-> "",
          token |-> _encode_jwt([sub |-> kwargs.user_id, role |-> kwargs.role,
                                 iss |-> "medilink-auth"],
                                USER_JWT_TTL_SECONDS)]

\* jwt_tokens.generate_service_access_token: the backend's credential for
\* PostgREST, kept in self.service_jwt and sent by _headers().
generate_service_access_token ==
    _encode_jwt([role |-> "medilink_ops", iss |-> "medilink-backend"],
                SERVICE_JWT_TTL_SECONDS)

\* ---------------------------------------------------------------- results
\* What a service method hands to its caller: a (ok, dict) pair or an
\* exception that propagates.
Return(ok, payload) == [kind |-> "return", ok |-> ok, payload |-> payload]

Raise(exc) == [kind |-> "raise", ok |-> FALSE, payload |-> [exception |-> exc]]

NoResult == [kind |-> "none", ok |-> FALSE, payload |-> [none |-> TRUE]]

Error(msg) == Return(FALSE, [error |-> msg])

ErrorWithDetails(msg) == Return(FALSE, [error |-> msg, details |-> "resp.text"])

\* views.login_view: the HTTP status and body for a result of authenticate().
login_view(result) ==
    IF ~result.ok THEN <<401, result.payload>> ELSE <<200, result.payload>>

\* ------------------------------------------------------------------ store
\* A store call is answered ("ok"), answered with an error status
\* ("rejected") or raises requests.RequestException ("timeout").
Outcomes == {"ok", "rejected", "timeout"}

StoreCall(o) ==
    /\ o \in Outcomes
    /\ o # "ok" => faults < MaxFaults
    /\ faults' = IF o = "ok" THEN faults ELSE faults + 1

NoRow == [id |-> 0]

\* token_row: refresh() later reads token_row['id'] and ['session_id'].
TokenRowKept(row) == [id |-> row.id, session_id |-> row.session_id]

\* session: refresh() later reads session['id'] and ['user_id'].
SessionKept(row) == [id |-> row.id, user_id |-> row.user_id]

\* user: later read are user['id'] and user['p_role'].
UserKept(row) == [id |-> row.id, p_role |-> row.p_role]

\* GET /session_tokens?token_hash=eq.<hex>
tokens_by_hash(hex) ==
    LET m == {i \in DOMAIN session_tokens : session_tokens[i].token_hash = hex}
    IN  IF m = {} THEN <<>>
        ELSE <<session_tokens[CHOOSE i \in m : \A j \in m : i <= j]>>

\* GET /sessions?id=eq.<id>
sessions_by_id(id) ==
    IF id \in DOMAIN sessions THEN <<sessions[id]>> ELSE <<>>

\* A RefreshToken row is ACTIVE: unused, unrevoked, expiry in the future.
Active(row) ==
    /\ ~IsSet(row.used_at)
    /\ ~IsSet(row.revoked_at)
    /\ _parse_timestamp(row.expires_at) > now

ActiveTokensOf(sid) ==
    {i \in DOMAIN session_tokens :
        session_tokens[i].session_id = sid /\ Active(session_tokens[i])}

\* ----------------------------------------------------------- request state
\* A RefreshService request: its position and its locals.  Of a row it has
\* read, a request keeps the columns its later steps use.
IdleRefresh ==
    [pc |-> "idle", refresh_token |-> 0, token_row |-> NoRow,
     session |-> NoRow, user |-> NoRow, new_refresh |-> 0,
     \* history: the session of the presented token was already revoked
     \* when the request began
     after_revoke |-> FALSE]

\* A LoginService request.
IdleLogin ==
    [pc |-> "idle", identifier |-> "", password |-> "", user |-> NoRow,
     session |-> NoRow, now |-> NULL]

\* No request was answered in the last step.
NoAnswer == [request |-> <<>>, after_revoke |-> FALSE, result |-> NoResult]

Init ==
    /\ now = 0
    /\ sessions = <<>>
    /\ session_tokens = <<>>
    /\ issued = 0
    /\ faults = 0
    /\ rq = [p \in RefreshProcs |-> IdleRefresh]
    /\ lg = [l \in LoginProcs |-> IdleLogin]
    /\ out = NoAnswer
    /\ registered = <<>>
    /\ seen = [wrong_secret |-> <<>>, unknown_identifier |-> <<>>]
    /\ appointments = <<>>

\* ---------------------------------------------------------------- the clock
Tick ==
    /\ now + TickDays <= MaxNow
    /\ now' = now + TickDays
    /\ out' = NoAnswer
    /\ UNCHANGED <<appointments, registered, sessions, session_tokens, issued, faults, rq, lg, seen>>

\* ------------------------------------------------- RefreshService.refresh
\* Rows the store builds for a POST (id and unset columns by the database).
\* The columns no code reads back (created_at, user_agent, ip_address) are
\* left out.
NewSessionRow(user_id, last_used_at, expires_at) ==
    [id |-> Len(sessions) + 1, user_id |-> user_id,
     last_used_at |-> last_used_at, expires_at |-> expires_at,
     revoked_at |-> NULL]

\* A new token attached to the newest session of the store.
NewTokenRow_NewestSession(session_id, token_hash, expires_at) ==
    [id |-> Len(session_tokens) + 1, session_id |-> Len(sessions),
     token_hash |-> token_hash, expires_at |-> expires_at,
     used_at |-> NULL, revoked_at |-> NULL]

NewTokenRow(session_id, token_hash, expires_at) ==
    [id |-> Len(session_tokens) + 1, session_id |-> session_id,
     token_hash |-> token_hash, expires_at |-> expires_at,
     used_at |-> NULL, revoked_at |-> NULL]

\* refresh(): "if token_row.get('used_at') or token_row.get('revoked_at')"
TokenSpent(token_row) ==
    IsSet(token_row.used_at) \/ IsSet(token_row.revoked_at)

\* The expiry comparison turned around.
TokenExpired_Reversed(token_row) ==
    /\ IsSet(token_row.expires_at)
    /\ _parse_timestamp(token_row.expires_at) > now

\* refresh(): the token's own expiry check
TokenExpired(token_row) ==
    /\ IsSet(token_row.expires_at)
    /\ _parse_timestamp(token_row.expires_at) < now

\* The revocation check left out.
SessionRevoked_Omitted(session) == FALSE

\* refresh(): "if session.get('revoked_at')"
SessionRevoked(session) == IsSet(session.revoked_at)

\* refresh(): the session's expiry check
SessionExpired(session) ==
    /\ IsSet(session.expires_at)
    /\ _parse_timestamp(session.expires_at) < now

\* A revocation that takes every session of the same user with it.
RevokeSessionWrite_AllOfUser(sid) ==
    [s \in DOMAIN sessions |->
        IF sessions[s].user_id = sessions[sid].user_id
        THEN [sessions[s] EXCEPT !.revoked_at = _now_utc]
        ELSE sessions[s]]

\* PATCH /sessions?id=eq.<sid> {"revoked_at": now}: the table after the write.
RevokeSessionWrite(sid) ==
    [sessions EXCEPT ![sid].revoked_at = _now_utc]

\* A write that clears used_at of a token that already has it.
MarkUsedWrite_Clearing(id) ==
    [session_tokens EXCEPT ![id].used_at =
        IF session_tokens[id].used_at = NULL THEN _now_utc ELSE NULL]

\* A rotation that removes the presented token's row instead of marking it.
MarkUsedWrite_Deleting(id) ==
    SelectSeq(session_tokens, LAMBDA r : r.id # id)

\* PATCH /session_tokens?id=eq.<id> {"used_at": now}: the table after the
\* write.  The filter is the id alone.
MarkUsedWrite(id) ==
    [session_tokens EXCEPT ![id].used_at = _now_utc]

\* A sliding expiry: each rotation also pushes the session's expiry out.
TouchSessionWrite_Sliding(sid) ==
    [sessions EXCEPT ![sid].last_used_at = _now_utc,
                     ![sid].expires_at =
                         _expiry_after_days(REFRESH_TOKEN_TTL_DAYS)]

\* PATCH /sessions?id=eq.<sid> {"last_used_at": now}
TouchSessionWrite(sid) ==
    [sessions EXCEPT ![sid].last_used_at = _now_utc]

\* The keyword arguments refresh() passes to generate_user_access_token.
RefreshJwtKwargs(user, session) ==
    [user_id |-> user.id, role |-> user.p_role, session_id |-> session.id]

\* refresh() returns or raises: its locals go away, the caller has res, and
\* the worker is free for the next request.
FinishWith(p, secret, after_revoke, res) ==
    /\ rq' = [rq EXCEPT ![p] = IdleRefresh]
    /\ out' = [request |-> <<secret>>, after_revoke |-> after_revoke,
               result |-> res]

Finish(p, res) ==
    FinishWith(p, rq[p].refresh_token, rq[p].after_revoke, res)

\* The session that owns the token issued for a secret is revoked.
SessionOfSecretRevoked(secret) ==
    \E i \in DOMAIN session_tokens :
        /\ session_tokens[i].token_hash = Hex(Sha256(secret))
        /\ sessions[session_tokens[i].session_id].revoked_at # NULL

Continue(r1) ==
    /\ rq' = r1
    /\ out' = NoAnswer

\* A worker is free for the next request; the second worker is taken only
\* while the first is busy.
Free(p) ==
    /\ rq[p].pc = "idle"
    /\ p = "r2" => rq["r1"].pc # "idle"

\* What refresh() returns to its caller on the token alone, given the status
\* and the rows of the lookup response: NoResult when it goes on (to the
\* revocation for a spent token, to the session check for a usable one).
TokenValidityFailure(o, rows) ==
    IF o = "rejected" \/ rows = <<>>
      THEN Error("Invalid refresh token")
      ELSE IF TokenSpent(rows[1])
      THEN NoResult
      ELSE IF TokenExpired(rows[1])
      THEN Error("Refresh token expired")
      ELSE NoResult

\* RefreshService(refresh_token).refresh() with a caller-chosen string (0 is a
\* string no token was issued for): 1. lookup token, 2. check token status.
RefreshLookup(p) ==
    \E secret \in 0..issued, o \in Outcomes :
        /\ Free(p)
        /\ StoreCall(o)
        /\ LET rows == tokens_by_hash(Hex(_hash_token(secret)))
               late == SessionOfSecretRevoked(secret)
           IN  IF o = "timeout"
                 THEN FinishWith(p, secret, late, Raise("RequestException"))
                 ELSE IF TokenValidityFailure(o, rows) # NoResult
                 THEN FinishWith(p, secret, late, TokenValidityFailure(o, rows))
                 ELSE IF TokenSpent(rows[1])
                 THEN Continue([rq EXCEPT ![p].pc = "revoke",
                                          ![p].refresh_token = secret,
                                          ![p].after_revoke = late,
                                          ![p].token_row = TokenRowKept(rows[1])])
                 ELSE Continue([rq EXCEPT ![p].pc = "session",
                                          ![p].refresh_token = secret,
                                          ![p].after_revoke = late,
                                          ![p].token_row = TokenRowKept(rows[1])])
        /\ UNCHANGED <<appointments, registered, now, sessions, session_tokens, issued, lg, seen>>

\* replay detected: revoke the entire session; the response is not read
RefreshRevoke(p) ==
    \E o \in Outcomes :
        /\ rq[p].pc = "revoke"
        /\ StoreCall(o)
        /\ sessions' = IF o = "ok"
                       THEN RevokeSessionWrite(rq[p].token_row.session_id)
                       ELSE sessions
        /\ IF o = "timeout"
                 THEN Finish(p, Raise("RequestException"))
                 ELSE Finish(p, Error("Session revoked due to token reuse"))
        /\ UNCHANGED <<appointments, registered, now, session_tokens, issued, lg, seen>>

\* A session check that revokes a session it finds expired.
RefreshGetSession_Revoking(p) ==
    \E o \in Outcomes :
        /\ rq[p].pc = "session"
        /\ StoreCall(o)
        /\ LET rows == sessions_by_id(rq[p].token_row.session_id)
           IN  IF o = "timeout"
                 THEN Finish(p, Raise("RequestException")) /\ sessions' = sessions
                 ELSE IF o = "rejected" \/ rows = <<>>
                 THEN Finish(p, Error("Session not found")) /\ sessions' = sessions
                 ELSE IF SessionRevoked(rows[1])
                 THEN Finish(p, Error("Session revoked")) /\ sessions' = sessions
                 ELSE IF SessionExpired(rows[1])
                 THEN /\ Finish(p, Error("Session expired"))
                      /\ sessions' = RevokeSessionWrite(rows[1].id)
                 ELSE /\ Continue([rq EXCEPT ![p].pc = "user",
                                             ![p].session = SessionKept(rows[1])])
                      /\ sessions' = sessions
        /\ UNCHANGED <<appointments, registered, now, session_tokens, issued, lg, seen>>

\* 3. validate session
RefreshGetSession(p) ==
    \E o \in Outcomes :
        /\ rq[p].pc = "session"
        /\ StoreCall(o)
        /\ LET rows == sessions_by_id(rq[p].token_row.session_id)
           IN  IF o = "timeout"
                 THEN Finish(p, Raise("RequestException"))
                 ELSE IF o = "rejected" \/ rows = <<>>
                 THEN Finish(p, Error("Session not found"))
                 ELSE IF SessionRevoked(rows[1])
                 THEN Finish(p, Error("Session revoked"))
                 ELSE IF SessionExpired(rows[1])
                 THEN Finish(p, Error("Session expired"))
                 ELSE Continue([rq EXCEPT ![p].pc = "user", ![p].session = SessionKept(rows[1])])
        /\ UNCHANGED <<appointments, registered, now, sessions, session_tokens, issued, lg, seen>>

\* 4. fetch user data
RefreshGetUser(p) ==
    \E o \in Outcomes :
        /\ rq[p].pc = "user"
        /\ StoreCall(o)
        /\ LET rows == users_by_id(rq[p].session.user_id)
           IN  IF o = "timeout"
                 THEN Finish(p, Raise("RequestException"))
                 ELSE IF o = "rejected" \/ rows = <<>>
                 THEN Finish(p, Error("User not found"))
                 ELSE Continue([rq EXCEPT ![p].pc = "mark", ![p].user = UserKept(rows[1])])
        /\ UNCHANGED <<appointments, registered, now, sessions, session_tokens, issued, lg, seen>>

\* 5. mark old token as used
RefreshMarkUsed(p) ==
    \E o \in Outcomes :
        /\ rq[p].pc = "mark"
        /\ StoreCall(o)
        /\ session_tokens' = IF o = "ok" THEN MarkUsedWrite(rq[p].token_row.id)
                             ELSE session_tokens
        /\ IF o = "timeout"
                 THEN Finish(p, Raise("RequestException"))
                 ELSE IF o = "rejected"
                 THEN Finish(p, Error("Token rotation failed"))
                 ELSE Continue([rq EXCEPT ![p].pc = "create"])
        /\ UNCHANGED <<appointments, registered, now, sessions, issued, lg, seen>>

\* 6. create new refresh token
RefreshCreateToken(p) ==
    \E o \in Outcomes :
        /\ rq[p].pc = "create"
        /\ StoreCall(o)
        /\ o = "ok" => Len(session_tokens) < MaxTokens
        /\ LET gen == _generate_refresh_token(issued + 1)
               new_expires_at == _expiry_after_days(REFRESH_TOKEN_TTL_DAYS)
               row == NewTokenRow(rq[p].token_row.session_id, Hex(gen[2]),
                                  new_expires_at)
           IN  /\ issued' = issued + 1
               /\ session_tokens' = IF o = "ok" THEN Append(session_tokens, row)
                                    ELSE session_tokens
               /\ IF o = "timeout"
                        THEN Finish(p, Raise("RequestException"))
                        ELSE IF o = "rejected"
                        THEN Finish(p, Error("Token rotation failed"))
                        ELSE Continue([rq EXCEPT ![p].pc = "touch",
                                        ![p].new_refresh = gen[1]])
        /\ UNCHANGED <<appointments, registered, now, sessions, lg, seen>>

\* 7. update session last_used_at (response not read), 8. issue the access
\* token, 9. return the tokens
RefreshTouch(p) ==
    \E o \in Outcomes :
        /\ rq[p].pc = "touch"
        /\ StoreCall(o)
        /\ LET jwt == generate_user_access_token(
                          RefreshJwtKwargs(rq[p].user, rq[p].session))
           IN  /\ sessions' = IF o = "ok"
                              THEN TouchSessionWrite(rq[p].session.id)
                              ELSE sessions
               /\ IF o = "timeout"
                        THEN Finish(p, Raise("RequestException"))
                        ELSE IF jwt.raised # ""
                        THEN Finish(p, Raise(jwt.raised))
                        ELSE Finish(p, Return(TRUE,
                                 [access_token |-> jwt.token,
                                  refresh_token |-> rq[p].new_refresh,
                                  expires_in |-> ACCESS_TOKEN_TTL_SECONDS]))
        /\ UNCHANGED <<appointments, registered, now, session_tokens, issued, lg, seen>>

\* ---------------------------------------------- LoginService.authenticate
\* Every request field taken as present.
Truthy_Always(str) == TRUE

\* Python truthiness of a str-or-None request field.
Truthy(str) == str # ""

\* The keyword arguments authenticate() passes to generate_user_access_token.
LoginJwtKwargs(user, session) ==
    [user_id |-> user.id, p_role |-> user.p_role, session_id |-> session.id,
     role |-> "authenticated"]

\* The case a login is, by its input and the identity store alone.
LoginCase(ident, pw) ==
    IF ident = "" \/ pw = "" THEN "missing_input"
    ELSE IF ident \notin DOMAIN Users THEN "unknown_identifier"
    ELSE IF Users[ident].password_hash # Argon2(pw) THEN "wrong_secret"
    ELSE "correct"

\* authenticate() returns: its locals go away, the caller has res.
LoginFinishWith(l, ident, pw, res) ==
    /\ lg' = [lg EXCEPT ![l] = IdleLogin]
    /\ out' = [request |-> <<"login", LoginCase(ident, pw)>>,
               after_revoke |-> FALSE, result |-> res]

LoginFinish(l, res) == LoginFinishWith(l, lg[l].identifier, lg[l].password, res)

LoginContinue(l1) ==
    /\ lg' = l1
    /\ out' = NoAnswer

\* An unknown identifier reported as such.
LoginCheck_UserNotFound(ident, pw, o) ==
    LET rows == get_user_for_login(ident)
    IN  IF ~(Truthy(ident) /\ Truthy(pw)) THEN Error("Invalid credentials")
        ELSE IF o = "timeout" THEN Error("Authentication service unavailable")
        ELSE IF o = "rejected" THEN Error("Invalid credentials")
        ELSE IF rows = <<>> THEN Error("User not found")
        ELSE IF PH_verify(rows[1].password_hash, pw) = "VerifyMismatchError"
        THEN Error("Invalid credentials")
        ELSE IF PH_verify(rows[1].password_hash, pw) # "ok"
        THEN Error("Authentication failed")
        ELSE NoResult

\* authenticate(), steps 1 to 3, with the store answering the RPC as o: the
\* result it returns there, or NoResult when it goes on to create the session.
LoginCheck(ident, pw, o) ==
    LET rows == get_user_for_login(ident)
    IN  IF ~(Truthy(ident) /\ Truthy(pw)) THEN Error("Invalid credentials")
        ELSE IF o = "timeout" THEN Error("Authentication service unavailable")
        ELSE IF o = "rejected" \/ rows = <<>> THEN Error("Invalid credentials")
        ELSE IF PH_verify(rows[1].password_hash, pw) = "VerifyMismatchError"
        THEN Error("Invalid credentials")
        ELSE IF PH_verify(rows[1].password_hash, pw) # "ok"
        THEN Error("Authentication failed")
        ELSE NoResult

\* A login that creates the session as soon as the user is found, before the
\* password is verified.
LoginSubmit_SessionFirst(l) ==
    \E ident \in Identifiers, pw \in Passwords, o \in Outcomes :
        /\ lg[l].pc = "idle"
        /\ LET valid == Truthy(ident) /\ Truthy(pw)
               rows == get_user_for_login(ident)
               res == LoginCheck(ident, pw, o)
               row == NewSessionRow(rows[1].id, _now_utc,
                          _expiry_after_days(REFRESH_TOKEN_TTL_DAYS))
           IN  /\ IF valid THEN StoreCall(o)
                  ELSE o = "ok" /\ faults' = faults
               /\ sessions' = IF /\ valid /\ o = "ok" /\ rows # <<>>
                                 /\ res # NoResult
                                 /\ Len(sessions) < MaxSessions
                              THEN Append(sessions, row)
                              ELSE sessions
               /\ IF res # NoResult
                        THEN LoginFinishWith(l, ident, pw, res)
                        ELSE LoginContinue([lg EXCEPT ![l] =
                                [IdleLogin EXCEPT !.pc = "session",
                                                  !.identifier = ident,
                                                  !.password = pw,
                                                  !.user = UserKept(rows[1])]])
        /\ UNCHANGED <<appointments, registered, now, session_tokens, issued, rq>>

\* LoginService(data).authenticate(): 1. validate input, 2. fetch user via
\* RPC, 3. verify password
LoginSubmit(l) ==
    \E ident \in Identifiers, pw \in Passwords, o \in Outcomes :
        /\ lg[l].pc = "idle"
        /\ LET valid == Truthy(ident) /\ Truthy(pw)
               rows == get_user_for_login(ident)
               res == LoginCheck(ident, pw, o)
           IN  /\ IF valid THEN StoreCall(o)
                  ELSE o = "ok" /\ faults' = faults
               /\ IF res # NoResult
                        THEN LoginFinishWith(l, ident, pw, res)
                        ELSE LoginContinue([lg EXCEPT ![l] =
                                [IdleLogin EXCEPT !.pc = "session",
                                                  !.identifier = ident,
                                                  !.password = pw,
                                                  !.user = UserKept(rows[1])]])
        /\ UNCHANGED <<appointments, registered, now, sessions, session_tokens, issued, rq>>

\* 4. create session
LoginCreateSessionUpTo(l, cap) ==
    \E o \in Outcomes :
        /\ lg[l].pc = "session"
        /\ StoreCall(o)
        /\ o = "ok" => Len(sessions) < cap
        /\ LET session_expires_at == _expiry_after_days(REFRESH_TOKEN_TTL_DAYS)
               row == NewSessionRow(lg[l].user.id, _now_utc, session_expires_at)
           IN  /\ sessions' = IF o = "ok" THEN Append(sessions, row)
                              ELSE sessions
               /\ IF o = "timeout"
                        THEN LoginFinish(l, Error("Session creation failed"))
                        ELSE IF o = "rejected"
                        THEN LoginFinish(l,
                                 ErrorWithDetails("Session creation failed"))
                        ELSE LoginContinue([lg EXCEPT ![l].pc = "token",
                                                ![l].session = SessionKept(row),
                                                ![l].now = _now_utc])
        /\ UNCHANGED <<appointments, registered, now, session_tokens, issued, rq>>

LoginCreateSession(l) == LoginCreateSessionUpTo(l, MaxSessions)

\* A login that does not read the store's answer to the token insert and
\* returns its tokens whether or not the row was stored.
LoginCreateToken_Unchecked(l) ==
    \E o \in Outcomes :
        /\ lg[l].pc = "token"
        /\ StoreCall(o)
        /\ o = "ok" => Len(session_tokens) < MaxTokens
        /\ LET gen == Login_generate_refresh_token(issued + 1)
               refresh_expires_at == _expiry_after_days(REFRESH_TOKEN_TTL_DAYS)
               row == NewTokenRow(lg[l].session.id, gen[2], refresh_expires_at)
               jwt == generate_user_access_token(
                          [user_id |-> lg[l].user.id, role |-> lg[l].user.p_role])
           IN  /\ issued' = issued + 1
               /\ session_tokens' = IF o = "ok" THEN Append(session_tokens, row)
                                    ELSE session_tokens
               /\ LoginFinish(l, Return(TRUE,
                                 [access_token |-> jwt.token,
                                  refresh_token |-> gen[1],
                                  expires_in |-> ACCESS_TOKEN_TTL_SECONDS,
                                  user_id |-> lg[l].user.id,
                                  role |-> lg[l].user.p_role]))
        /\ UNCHANGED <<appointments, registered, now, sessions, rq>>

\* A login that takes a timed-out token insert for a stored row and returns
\* its tokens.
LoginCreateToken_Optimistic(l) ==
    \E o \in Outcomes :
        /\ lg[l].pc = "token"
        /\ StoreCall(o)
        /\ o = "ok" => Len(session_tokens) < MaxTokens
        /\ LET gen == Login_generate_refresh_token(issued + 1)
               refresh_expires_at == _expiry_after_days(REFRESH_TOKEN_TTL_DAYS)
               row == NewTokenRow(lg[l].session.id, gen[2], refresh_expires_at)
               jwt == generate_user_access_token(
                          [user_id |-> lg[l].user.id, role |-> lg[l].user.p_role])
           IN  /\ issued' = issued + 1
               /\ session_tokens' = IF o = "ok" THEN Append(session_tokens, row)
                                    ELSE session_tokens
               /\ IF o = "rejected"
                        THEN LoginFinish(l,
                                 ErrorWithDetails("Token creation failed"))
                        ELSE LoginFinish(l, Return(TRUE,
                                 [access_token |-> jwt.token,
                                  refresh_token |-> gen[1],
                                  expires_in |-> ACCESS_TOKEN_TTL_SECONDS,
                                  user_id |-> lg[l].user.id,
                                  role |-> lg[l].user.p_role]))
        /\ UNCHANGED <<appointments, registered, now, sessions, rq>>

\* 5. create refresh token, 6. issue access token, 7. return response
LoginCreateToken(l) ==
    \E o \in Outcomes :
        /\ lg[l].pc = "token"
        /\ StoreCall(o)
        /\ o = "ok" => Len(session_tokens) < MaxTokens
        /\ LET gen == Login_generate_refresh_token(issued + 1)
               refresh_expires_at == _expiry_after_days(REFRESH_TOKEN_TTL_DAYS)
               row == NewTokenRow(lg[l].session.id, gen[2], refresh_expires_at)
               jwt == generate_user_access_token(
                          LoginJwtKwargs(lg[l].user, lg[l].session))
           IN  /\ issued' = issued + 1
               /\ session_tokens' = IF o = "ok" THEN Append(session_tokens, row)
                                    ELSE session_tokens
               /\ IF o = "timeout"
                        THEN LoginFinish(l, Error("Token creation failed"))
                        ELSE IF o = "rejected"
                        THEN LoginFinish(l,
                                 ErrorWithDetails("Token creation failed"))
                        ELSE IF jwt.raised # ""
                        THEN LoginFinish(l,
                                 Error("Access token generation failed"))
                        ELSE LoginFinish(l, Return(TRUE,
                                 [access_token |-> jwt.token,
                                  refresh_token |-> gen[1],
                                  expires_in |-> ACCESS_TOKEN_TTL_SECONDS,
                                  user_id |-> lg[l].user.id,
                                  role |-> lg[l].user.p_role]))
        /\ UNCHANGED <<appointments, registered, now, sessions, rq>>

\* ------------------------------------------------- Registretion.register
\* The text fields whose characters validate() inspects are sequences of
\* characters; a missing field (None) and the empty string are both <<>>.
UpperCase ==
    <<"A", "B", "C", "D", "E", "F", "G", "H", "I", "J", "K", "L", "M",
      "N", "O", "P", "Q", "R", "S", "T", "U", "V", "W", "X", "Y", "Z">>

LowerCase ==
    <<"a", "b", "c", "d", "e", "f", "g", "h", "i", "j", "k", "l", "m",
      "n", "o", "p", "q", "r", "s", "t", "u", "v", "w", "x", "y", "z">>

Digits == {"0", "1", "2", "3", "4", "5", "6", "7", "8", "9"}

Letters ==
    {UpperCase[k] : k \in DOMAIN UpperCase}
        \cup {LowerCase[k] : k \in DOMAIN LowerCase}

\* str.lower()
lower(str) ==
    [i \in DOMAIN str |->
        IF \E k \in DOMAIN UpperCase : UpperCase[k] = str[i]
        THEN LowerCase[CHOOSE k \in DOMAIN UpperCase : UpperCase[k] = str[i]]
        ELSE str[i]]

\* Python's "item in pw" on strings
Contains(item, pw) ==
    \E i \in 0..(Len(pw) - Len(item)) : SubSeq(pw, i + 1, i + Len(item)) = item

\* re.search of a one-character class
re_search(class, str) == \E i \in DOMAIN str : str[i] \in class

AllIn(class, str) == \A i \in DOMAIN str : str[i] \in class

\* Registretion.is_valid_email:
\* ^[a-zA-Z0-9._%+-]+@[a-zA-Z0-9.-]+\.[a-zA-Z]{2,}$
is_valid_email(email) ==
    \E i, j \in DOMAIN email :
        /\ 1 < i /\ i + 1 < j /\ j + 2 <= Len(email)
        /\ AllIn(Letters \cup Digits \cup {".", "_", "%", "+", "-"},
                 SubSeq(email, 1, i - 1))
        /\ email[i] = "@"
        /\ AllIn(Letters \cup Digits \cup {".", "-"}, SubSeq(email, i + 1, j - 1))
        /\ email[j] = "."
        /\ AllIn(Letters, SubSeq(email, j + 1, Len(email)))

\* self.email.split("@")[0]
EmailLocalPart(email) ==
    IF \E i \in DOMAIN email : email[i] = "@"
    THEN SubSeq(email, 1,
                (CHOOSE i \in DOMAIN email :
                    /\ email[i] = "@"
                    /\ \A k \in 1..(i - 1) : email[k] # "@") - 1)
    ELSE email

\* Registretion.password_strength
password_strength(data) ==
    LET pw == data.password
        blacklist == {data.username, data.first_name, data.middle_name,
                      data.last_name, EmailLocalPart(data.email),
                      data.phone_number}
    IN  /\ Len(pw) >= 8
        /\ re_search({UpperCase[k] : k \in DOMAIN UpperCase}, pw)
        /\ re_search({LowerCase[k] : k \in DOMAIN LowerCase}, pw)
        /\ re_search(Digits, pw)
        /\ \E i \in DOMAIN pw : pw[i] \notin Letters \cup Digits \cup {"_", " "}
        /\ ~\E item \in blacklist :
              item # <<>> /\ Contains(lower(item), lower(pw))

\* ^\+?[1-9]\d{1,14}$
is_valid_phone(phone) ==
    LET digits == IF phone[1] = "+" THEN Tail(phone) ELSE phone
    IN  /\ Len(digits) >= 2 /\ Len(digits) <= 15
        /\ digits[1] \in Digits \ {"0"}
        /\ AllIn(Digits, digits)

ALLOWED_P_ROLES ==
    {"patient", "doctor", "nurse", "receptionist", "lab_technician",
     "pharmacist", "radiologist", "therapist", "surgeon", "anesthesiologist",
     "paramedic", "dietitian", "medical_assistant", "healthcare_admin"}

\* A validation without the role check.
ErrorKeys_AnyRole(data) ==
    {k \in {"username", "email", "password", "first_name", "middle_name",
            "last_name", "phone_number"} :
        \/ k = "username" /\ Len(data.username) < 4
        \/ k = "email" /\ ~is_valid_email(data.email)
        \/ k = "password" /\ ~password_strength(data)
        \/ k = "first_name" /\ Len(data.first_name) < 2
        \/ k = "middle_name" /\ data.middle_name # <<>>
                             /\ Len(data.middle_name) < 2
        \/ k = "last_name" /\ Len(data.last_name) < 2
        \/ k = "phone_number" /\ data.phone_number # <<>>
                              /\ ~is_valid_phone(data.phone_number)}

\* Registretion.validate: the keys of self.errors
ErrorKeys(data) ==
    {k \in {"username", "email", "password", "first_name", "middle_name",
            "last_name", "phone_number", "p_role"} :
        \/ k = "username" /\ Len(data.username) < 4
        \/ k = "email" /\ ~is_valid_email(data.email)
        \/ k = "password" /\ ~password_strength(data)
        \/ k = "first_name" /\ Len(data.first_name) < 2
        \/ k = "middle_name" /\ data.middle_name # <<>>
                             /\ Len(data.middle_name) < 2
        \/ k = "last_name" /\ Len(data.last_name) < 2
        \/ k = "phone_number" /\ data.phone_number # <<>>
                              /\ ~is_valid_phone(data.phone_number)
        \/ k = "p_role" /\ data.primary_role \notin ALLOWED_P_ROLES}

ErrorMessages ==
    [username |-> "Username must be at least 4 characters long.",
     email |-> "Invalid email format.",
     password |-> "Password is not strong enough.",
     first_name |-> "First name too short.",
     middle_name |-> "Middle name too short.",
     last_name |-> "Last name too short.",
     phone_number |-> "Invalid phone number format.",
     p_role |-> "Invalid or unauthorized role."]

\* self.errors after validate()
validate(data) == [k \in ErrorKeys(data) |-> ErrorMessages[k]]

\* The request bodies registrations are tried with: a body that passes
\* validate(), and bodies that differ from it in one field.
ValidBody ==
    [username |-> <<"c", "a", "r", "o", "l">>,
     email |-> <<"c", "j", "@", "x", ".", "i", "o">>,
     password |-> <<"S", "t", "r", "0", "n", "g", "!", "P", "w">>,
     first_name |-> <<"A", "n", "n">>,
     middle_name |-> <<>>,
     last_name |-> <<"L", "e", "e">>,
     phone_number |-> <<>>,
     primary_role |-> "patient"]

RegistrationData ==
    {ValidBody,
     [ValidBody EXCEPT !.primary_role = "doctor"],
     [ValidBody EXCEPT !.primary_role = "superuser"],
     [ValidBody EXCEPT !.primary_role = ""],
     [ValidBody EXCEPT !.username = <<"b", "o", "b">>],
     [ValidBody EXCEPT !.email = <<"c", "j", "@", "x">>],
     [ValidBody EXCEPT !.password =
         <<"C", "a", "r", "o", "l", "#", "2", "0", "2", "4">>],
     [ValidBody EXCEPT !.phone_number = <<"+", "0", "1">>]}

\* validate() of every request body tried: it reads the body alone.
Validated ==
    {[data |-> data, errors |-> validate(data)] : data \in RegistrationData}

\* The row POST /users stores and returns (Prefer: return=representation).
NewUserRow(data) ==
    [id |-> <<"user", Len(registered) + 1>>, username |-> data.username,
     email |-> data.email, p_role |-> data.primary_role,
     password_hash |-> Argon2(data.password)]

\* JsonResponse(body, status=status)
JsonResponse(body, status) ==
    [kind |-> "response", ok |-> status < 400, payload |-> body,
     status |-> status]

\* register_view -> Registretion(data).register(): validate, post the user,
\* issue the user token.
Register ==
    \E request \in Validated, o \in Outcomes :
        LET data == request.data
            errors == request.errors
            valid == DOMAIN errors = {}
            user == NewUserRow(data)
            jwt == generate_user_access_token(
                       [user_id |-> user.id, role |-> user.p_role])
        IN  /\ IF valid
               THEN StoreCall(o) /\ (o = "ok" => Len(registered) < MaxUsers)
               ELSE o = "ok" /\ faults' = faults
            /\ registered' = IF valid /\ o = "ok"
                             THEN Append(registered, user)
                             ELSE registered
            /\ out' =
                 [request |-> <<"register", data.primary_role, DOMAIN errors>>,
                  after_revoke |-> FALSE,
                  result |->
                      IF ~valid
                      THEN JsonResponse([error |-> "Registration failed",
                                         details |-> errors], 400)
                      ELSE IF o = "timeout" THEN Raise("RequestException")
                      ELSE IF o = "rejected"
                      THEN JsonResponse([error |-> "Registration failed",
                                         details |-> "response.text"], 400)
                      ELSE IF jwt.raised # "" THEN Raise(jwt.raised)
                      ELSE JsonResponse([message |-> "Registration successful",
                                         user_id |-> user.id,
                                         username |-> user.username,
                                         email |-> user.email,
                                         token |-> jwt.token], 201)]
            /\ UNCHANGED <<appointments, now, sessions, session_tokens, issued, rq,
                           lg, seen>>

\* ------------------------------------------------------------ specification
Next ==
    \/ Tick
    \/ \E p \in RefreshProcs : RefreshLookup(p)
    \/ \E p \in RefreshProcs : RefreshRevoke(p)
    \/ \E p \in RefreshProcs : RefreshGetSession(p)
    \/ \E p \in RefreshProcs : RefreshGetUser(p)
    \/ \E p \in RefreshProcs : RefreshMarkUsed(p)
    \/ \E p \in RefreshProcs : RefreshCreateToken(p)
    \/ \E p \in RefreshProcs : RefreshTouch(p)
    \/ \E l \in LoginProcs : LoginSubmit(l) /\ UNCHANGED seen
    \/ \E l \in LoginProcs : LoginCreateSession(l) /\ UNCHANGED seen
    \/ \E l \in LoginProcs : LoginCreateToken(l) /\ UNCHANGED seen

Spec == Init /\ [][Next]_vars

\* The login service alone, with the views' responses to failed logins
\* recorded per failure case.
ObserveLogin ==
    seen' = IF Len(out'.request) = 2 /\ out'.request[2] \in DOMAIN seen
            THEN [seen EXCEPT ![out'.request[2]] = login_view(out'.result)]
            ELSE seen

NextLogin ==
    \/ Tick
    \/ \E l \in LoginProcs : LoginSubmit(l) /\ ObserveLogin
    \/ \E l \in LoginProcs : LoginCreateSession(l) /\ ObserveLogin
    \/ \E l \in LoginProcs : LoginCreateToken(l) /\ ObserveLogin

SpecLogin == Init /\ [][NextLogin]_vars

\* One client at a time, with the clock moving from deadline to deadline:
\* time passes by the token and session lifetime, so that requests run at
\* the very instant a token or session expires.
TickDeadline ==
    /\ now + REFRESH_TOKEN_TTL_DAYS <= MaxDeadlines * REFRESH_TOKEN_TTL_DAYS
    /\ now' = now + REFRESH_TOKEN_TTL_DAYS
    /\ out' = NoAnswer
    /\ UNCHANGED <<appointments, registered, sessions, session_tokens, issued, faults, rq, lg, seen>>

NextDeadline ==
    \/ TickDeadline
    \/ RefreshLookup("r1")
    \/ RefreshRevoke("r1")
    \/ RefreshGetSession("r1")
    \/ RefreshGetUser("r1")
    \/ RefreshMarkUsed("r1")
    \/ RefreshCreateToken("r1")
    \/ RefreshTouch("r1")
    \/ \E l \in LoginProcs : LoginSubmit(l) /\ UNCHANGED seen
    \/ \E l \in LoginProcs : LoginCreateSession(l) /\ UNCHANGED seen
    \/ \E l \in LoginProcs : LoginCreateToken(l) /\ UNCHANGED seen

SpecDeadline == Init /\ [][NextDeadline]_vars

\* The three client operations, one client at a time: registration, login
\* and rotation.
NextClient ==
    \/ Tick
    \/ Register
    \/ RefreshLookup("r1")
    \/ RefreshRevoke("r1")
    \/ RefreshGetSession("r1")
    \/ RefreshGetUser("r1")
    \/ RefreshMarkUsed("r1")
    \/ RefreshCreateToken("r1")
    \/ RefreshTouch("r1")
    \/ \E l \in LoginProcs : LoginSubmit(l) /\ UNCHANGED seen
    \/ \E l \in LoginProcs : LoginCreateSession(l) /\ UNCHANGED seen
    \/ \E l \in LoginProcs : LoginCreateToken(l) /\ UNCHANGED seen

SpecClient == Init /\ [][NextClient]_vars

\* One client rotating while the same user is logged in on up to
\* MaxDevices devices, each login with a session of its own.
NextDevices ==
    \/ Tick
    \/ RefreshLookup("r1")
    \/ RefreshRevoke("r1")
    \/ RefreshGetSession("r1")
    \/ RefreshGetUser("r1")
    \/ RefreshMarkUsed("r1")
    \/ RefreshCreateToken("r1")
    \/ RefreshTouch("r1")
    \/ \E l \in LoginProcs : LoginSubmit(l) /\ UNCHANGED seen
    \/ \E l \in LoginProcs :
           LoginCreateSessionUpTo(l, MaxDevices) /\ UNCHANGED seen
    \/ \E l \in LoginProcs : LoginCreateToken(l) /\ UNCHANGED seen

SpecDevices == Init /\ [][NextDevices]_vars

\* Two clients rotating at once while the same user is logged in on up to
\* MaxDevices devices, all within one day.
NextPair ==
    \/ \E p \in RefreshProcs : RefreshLookup(p)
    \/ \E p \in RefreshProcs : RefreshRevoke(p)
    \/ \E p \in RefreshProcs : RefreshGetSession(p)
    \/ \E p \in RefreshProcs : RefreshGetUser(p)
    \/ \E p \in RefreshProcs : RefreshMarkUsed(p)
    \/ \E p \in RefreshProcs : RefreshCreateToken(p)
    \/ \E p \in RefreshProcs : RefreshTouch(p)
    \/ \E l \in LoginProcs : LoginSubmit(l) /\ UNCHANGED seen
    \/ \E l \in LoginProcs :
           LoginCreateSessionUpTo(l, MaxDevices) /\ UNCHANGED seen
    \/ \E l \in LoginProcs : LoginCreateToken(l) /\ UNCHANGED seen

SpecPair == Init /\ [][NextPair]_vars

\* ------------------------------------------------------------ appointments
\* The ids of the users that hold a user token.
AppointmentUsers == {"u1", "u2", "u3"}

\* The Authorization headers requests come with: none, or "Bearer <token>"
\* with the user token of a user.
AuthorizationHeaders ==
    {<<>>} \cup
    {<<generate_user_access_token([user_id |-> u, role |-> "patient"]).token>> :
        u \in AppointmentUsers}

\* decorators.jwt_required: the 401 response, or the request with user_id and
\* user_role taken from the token's sub and role.
jwt_required(header) ==
    IF header = <<>>
    THEN [authenticated |-> FALSE,
          response |-> JsonResponse(
              [error |-> "Missing or invalid Authorization header"], 401)]
    ELSE IF header[1]["aud"] # <<JWT_AUDIENCE>>
    THEN [authenticated |-> FALSE,
          response |-> JsonResponse([error |-> "Invalid token"], 401)]
    ELSE [authenticated |-> TRUE,
          user_id |-> header[1]["sub"][1],
          user_role |-> header[1]["role"][1]]

\* The row rpc/create_appointment stores; the columns the views do not test
\* are left out.
NewAppointmentRow(patient_id, doctor_id) ==
    [id |-> Len(appointments) + 1, patient_id |-> patient_id,
     doctor_id |-> doctor_id, deleted_at |-> NULL]

\* AppointmentService.get_appointment on the table rows, the store answering
\* as o: GET /appointments?id=eq.<id>&deleted_at=is.null.  A timeout raises,
\* and the body of an error answer is no list: both end in the except clause.
AppointmentService_get_appointment(rows, appointment_id, o) ==
    LET data == SelectSeq(rows, LAMBDA r : r.id = appointment_id
                                            /\ r.deleted_at = NULL)
    IN  IF o # "ok" THEN <<FALSE, [error |-> "Fetch failed"]>>
        ELSE IF data = <<>>
        THEN <<FALSE, [error |-> "Appointment not found or RLS blocked access"]>>
        ELSE <<TRUE, [appointment |-> data[1]]>>

\* An access check that lets every authenticated user through.
NoAccess_Never(appointment, user_id) == FALSE

\* views.get_appointment: "if appointment['patient_id'] != request.user_id
\* and appointment['doctor_id'] != request.user_id"
NoAccess(appointment, user_id) ==
    appointment.patient_id # user_id /\ appointment.doctor_id # user_id

\* views.get_appointment behind jwt_required
get_appointment(header, appointment_id, o) ==
    LET request == jwt_required(header)
        result == AppointmentService_get_appointment(appointments,
                                                     appointment_id, o)
    IN  IF ~request.authenticated THEN request.response
        ELSE IF ~result[1] THEN JsonResponse(result[2], 404)
        ELSE IF NoAccess(result[2].appointment, request.user_id)
        THEN JsonResponse(
                 [error |-> "You don't have permission to view this appointment"],
                 403)
        ELSE JsonResponse(result[2], 200)

\* GET /api/appointments/<appointment_id>/
GetAppointment ==
    \E header \in AuthorizationHeaders, appointment_id \in 1..MaxAppointments,
       o \in Outcomes :
        /\ out' = [request |-> <<"get_appointment", header, appointment_id, o>>,
                   after_revoke |-> FALSE,
                   result |-> get_appointment(header, appointment_id, o)]
        /\ UNCHANGED <<appointments, registered, now, sessions, session_tokens,
                       issued, faults, rq, lg, seen>>

\* POST /api/appointments/ by an authenticated user: views.create_appointment
\* and AppointmentService.create_appointment, which stores the appointment
\* with the caller as patient (o1) and fetches it back (o2).
CreateAppointment ==
    \E header \in AuthorizationHeaders \ {<<>>},
       doctor_id \in AppointmentUsers \cup {""}, o1 \in Outcomes,
       o2 \in Outcomes :
        LET request == jwt_required(header)
            row == NewAppointmentRow(request.user_id, doctor_id)
            stored == doctor_id # "" /\ o1 = "ok"
            rows == IF stored THEN Append(appointments, row) ELSE appointments
            result == AppointmentService_get_appointment(rows, row.id, o2)
        IN  /\ stored => Len(appointments) < MaxAppointments
            /\ doctor_id = "" => o1 = "ok" /\ o2 = "ok"
            /\ o1 # "ok" => o2 = "ok"
            /\ appointments' = rows
            /\ out' = [request |-> <<"create_appointment", header, doctor_id,
                                     o1, o2>>,
                       after_revoke |-> FALSE,
                       result |->
                           IF doctor_id = ""
                           THEN JsonResponse(
                                    [error |-> "Missing required fields: doctor_id"],
                                    400)
                           ELSE IF o1 = "timeout"
                           THEN JsonResponse([error |-> "str(e)"], 400)
                           ELSE IF o1 = "rejected"
                           THEN JsonResponse([error |-> "Creation failed"], 400)
                           ELSE IF ~result[1]
                           THEN JsonResponse(result[2], 400)
                           ELSE JsonResponse(result[2], 201)]
            /\ UNCHANGED <<registered, now, sessions, session_tokens, issued,
                           faults, rq, lg, seen>>

NextAppointments ==
    \/ CreateAppointment
    \/ GetAppointment

SpecAppointments == Init /\ [][NextAppointments]_vars

\* ================================================================== claims
\* A request of worker p ends in this step, after more than one store call.
Ends(p) == rq[p].pc # "idle" /\ rq'[p].pc = "idle"

\* A refresh request is answered in this step, at its first store call.
AnsweredAtLookup == Len(out'.request) = 1 /\ rq' = rq

\* No store call failed in this step.
StoreAnswered == faults' = faults

ReuseError == Error("Session revoked due to token reuse")

\* The tokens of session sid that are ACTIVE after the step.
ActiveTokensAfter(sid) ==
    {i \in DOMAIN session_tokens' :
        /\ session_tokens'[i].session_id = sid
        /\ session_tokens'[i].used_at = NULL
        /\ session_tokens'[i].revoked_at = NULL
        /\ session_tokens'[i].expires_at[1] > now'}

\* C1: chain invariant: in every reachable state each session has at most one
\* RefreshToken row that is unused, unrevoked and unexpired.
C1_ChainInvariant ==
    \A sid \in DOMAIN sessions : Cardinality(ActiveTokensOf(sid)) <= 1

\* C2: of two concurrent rotations presenting the same ACTIVE token exactly one
\* succeeds and the other fails as a replay; in particular never have both
\* marked the token used and minted a new refresh token from it.
C2_NoDoubleMint ==
    \A p, q \in RefreshProcs :
        (p # q /\ rq[p].pc = "touch" /\ rq[q].pc = "touch")
            => rq[p].token_row.id # rq[q].token_row.id

\* C3: once a rotation has spent token T and stored its successor, a later
\* rotation presenting T answers 'Session revoked due to token reuse', and
\* when it answers the owning session has revoked_at set.
C3_ReplayRevokes ==
    [][\A p \in RefreshProcs :
          (/\ Ends(p)
           /\ rq[p].pc = "revoke"
           /\ \A q \in RefreshProcs \ {p} : rq[q].pc = "idle"
           /\ \E i \in DOMAIN session_tokens :
                 /\ i > rq[p].token_row.id
                 /\ session_tokens[i].session_id = rq[p].token_row.session_id)
          => /\ out'.result = ReuseError
             /\ sessions'[rq[p].token_row.session_id].revoked_at # NULL]_vars

\* C4 as stated: after a replay has revoked a session, every rotation started
\* afterwards against any token of that session answers 'Session revoked'.
C4_AlwaysSessionRevoked ==
    [][\A p \in RefreshProcs :
          (Ends(p) /\ rq[p].after_revoke /\ StoreAnswered)
              => out'.result = Error("Session revoked")]_vars

\* C4 amended: a rotation started after its session was revoked never gets
\* past the session check; when the store answers, it ends with 'Session
\* revoked due to token reuse' if it read the presented token as spent and
\* with 'Session revoked' if it read it as unspent and unexpired.
C4_RevokedSessionRejects ==
    [][\A p \in RefreshProcs :
          /\ rq'[p].after_revoke => rq'[p].pc \in {"revoke", "session"}
          /\ (Ends(p) /\ rq[p].after_revoke /\ StoreAnswered)
                => /\ rq[p].pc = "revoke" => out'.result = ReuseError
                   /\ rq[p].pc = "session"
                        => out'.result = Error("Session revoked")]_vars

\* A rotation begun after the revocation of its session, with the ACTIVE token
\* of that session, has been answered 'Session revoked'.
C4_Witness ==
    /\ out.after_revoke
    /\ out.result = Error("Session revoked")
    /\ \E i \in DOMAIN session_tokens :
          /\ session_tokens[i].token_hash = Hex(Sha256(out.request[1]))
          /\ Active(session_tokens[i])

\* C5: the mark-used write succeeds only if used_at of the token was null when
\* the store applied it.
C5_MarkUsedConditional ==
    [][\A p \in RefreshProcs :
          (rq[p].pc = "mark" /\ rq'[p].pc = "create")
              => session_tokens[rq[p].token_row.id].used_at = NULL]_vars

\* C6: a rotation whose mark-used write finds the token already spent is
\* treated as a replay: it goes on to revoke the session and answers
\* 'Session revoked due to token reuse'; it does not go on to mint a token.
C6_LateMarkIsReplay ==
    [][\A p \in RefreshProcs :
          (/\ rq[p].pc = "mark"
           /\ session_tokens[rq[p].token_row.id].used_at # NULL
           /\ StoreAnswered)
              => \/ rq'[p].pc = "revoke"
                 \/ /\ out'.result = ReuseError
                    /\ sessions'[rq[p].token_row.session_id].revoked_at
                          # NULL]_vars

\* C7: a login with a correct identifier/secret pair and no store failure
\* returns success, its session's single refresh token is ACTIVE, and the
\* access token carries the user's id, the user's role and the session id.
C7_LoginSucceeds ==
    [][\A l \in LoginProcs :
          (lg[l].pc = "token" /\ lg'[l].pc = "idle" /\ StoreAnswered)
              => /\ out'.result.ok
                 /\ ActiveTokensAfter(lg[l].session.id)
                        = {Len(session_tokens')}
                 /\ out'.result.payload.access_token.sub = <<lg[l].user.id>>
                 /\ out'.result.payload.access_token.role
                        = <<lg[l].user.p_role>>
                 /\ out'.result.payload.access_token.sid
                        = <<lg[l].session.id>>]_vars

C9_ExpiredTokenRejected ==
    [][/\ \A p \in RefreshProcs :
             (rq[p].pc = "idle" /\ rq'[p].pc # "idle")
                 => ~(/\ session_tokens[rq'[p].token_row.id].used_at = NULL
                      /\ session_tokens[rq'[p].token_row.id].revoked_at = NULL
                      /\ session_tokens[rq'[p].token_row.id].expires_at[1]
                            < now)
       /\ (/\ AnsweredAtLookup
           /\ StoreAnswered
           /\ \E i \in DOMAIN session_tokens :
                 /\ session_tokens[i].token_hash = Hex(Sha256(out'.request[1]))
                 /\ session_tokens[i].used_at = NULL
                 /\ session_tokens[i].revoked_at = NULL
                 /\ session_tokens[i].expires_at[1] < now)
             => /\ out'.result = Error("Refresh token expired")
                /\ sessions' = sessions
                /\ session_tokens' = session_tokens]_vars

\* An expired, never used token has been presented and refused, and its
\* session is not revoked.
C9_Witness ==
    /\ out.result = Error("Refresh token expired")
    /\ \E i \in DOMAIN session_tokens :
          /\ session_tokens[i].token_hash = Hex(Sha256(out.request[1]))
          /\ session_tokens[i].used_at = NULL
          /\ session_tokens[i].expires_at[1] < now
          /\ sessions[session_tokens[i].session_id].revoked_at = NULL

\* C10: when the store rejects the new refresh token after the presented one
\* was marked used, the rotation answers 'Token rotation failed', the
\* presented token is SPENT and its session has no ACTIVE refresh token.
C10_FailClosed ==
    [][\A p \in RefreshProcs :
          (rq[p].pc = "create" /\ Ends(p) /\ out'.result.kind = "return")
              => /\ out'.result = Error("Token rotation failed")
                 /\ session_tokens'[rq[p].token_row.id].used_at # NULL
                 /\ ActiveTokensAfter(rq[p].token_row.session_id) = {}]_vars

\* C11: SPENT and REVOKED are terminal: once used_at or revoked_at of a
\* token row is non-null, no step resets either field to null, and the token
\* is not ACTIVE afterwards.
C11_SpentIsTerminal ==
    [][\A i \in DOMAIN session_tokens :
          /\ session_tokens[i].used_at # NULL
                => session_tokens'[i].used_at # NULL
          /\ session_tokens[i].revoked_at # NULL
                => session_tokens'[i].revoked_at # NULL
          /\ TokenSpent(session_tokens[i])
                => i \notin ActiveTokensAfter(session_tokens[i].session_id)]_vars

\* A token that was already spent has been marked used by a second rotation.
C11_Witness ==
    \E p, q \in RefreshProcs :
        /\ p # q
        /\ rq[p].pc = "touch"
        /\ rq[q].pc = "create"
        /\ rq[p].token_row.id = rq[q].token_row.id
        /\ session_tokens[rq[p].token_row.id].used_at # NULL

\* C12: used_at of a RefreshToken is written once: after it is non-null no
\* step changes its value.
C12_UsedAtWrittenOnce ==
    [][\A i \in DOMAIN session_tokens :
          session_tokens[i].used_at # NULL
              => session_tokens'[i].used_at = session_tokens[i].used_at]_vars

\* C13: revoked_at of a Session is set once: after it is non-null no step
\* clears or overwrites it; a second replay leaves the stored row as it is.
C13_RevokedAtSetOnce ==
    [][\A sid \in DOMAIN sessions :
          sessions[sid].revoked_at # NULL
              => sessions'[sid].revoked_at = sessions[sid].revoked_at]_vars

\* The failures of a rotation other than replay detection and a failed write.
ReadOnlyFailures ==
    {Error("Invalid refresh token"), Error("Refresh token expired"),
     Error("Session not found"), Error("Session revoked"),
     Error("Session expired"), Error("User not found")}

\* C14: a rotation that fails with InvalidRefreshToken, RefreshTokenExpired,
\* SessionNotFound, SessionRevoked, SessionExpired or UserNotFound has written
\* nothing: it is answered at the lookup, the session check or the user
\* fetch, and every step of a rotation up to and including those leaves all
\* Session and RefreshToken rows unchanged.
C14_FailuresWriteNothing ==
    [][/\ out'.result \in ReadOnlyFailures
             => sessions' = sessions /\ session_tokens' = session_tokens
       /\ \A p \in RefreshProcs :
             /\ (Ends(p) /\ out'.result \in ReadOnlyFailures)
                   => rq[p].pc \in {"session", "user"}
             /\ (rq'[p] # rq[p] /\ rq'[p].pc \in {"session", "user", "mark"})
                   => sessions' = sessions /\ session_tokens' = session_tokens
      ]_vars

\* A rotation has failed at the session check with SessionExpired.
C14_Witness ==
    /\ out.result = Error("Session expired")
    /\ Len(out.request) = 1
    /\ \E i \in DOMAIN session_tokens :
          /\ session_tokens[i].token_hash = Hex(Sha256(out.request[1]))
          /\ sessions[session_tokens[i].session_id].revoked_at = NULL

\* C15: a rotation whose session check runs at a time now >= expires_at of
\* its (unrevoked) session, with the store answering, fails with
\* SessionExpired.
C15_ExpiredSessionRejected ==
    [][\A p \in RefreshProcs :
          (/\ rq[p].pc = "session"
           /\ rq'[p] # rq[p]
           /\ StoreAnswered
           /\ sessions[rq[p].token_row.session_id].revoked_at = NULL
           /\ sessions[rq[p].token_row.session_id].expires_at[1] <= now)
              => out'.result = Error("Session expired")]_vars

\* A login is answered in this step, the step that submitted it.
LoginAnsweredAtSubmit ==
    /\ Len(out'.request) = 2
    /\ \A l \in LoginProcs : lg[l].pc = "idle"

\* C16: a login with identifier and secret present that ends at the user
\* lookup or the password check (identifier not found, lookup rejected or
\* timed out, password mismatch) returns the InvalidCredentials error.
C16_LookupFailureIsInvalidCredentials ==
    [][(LoginAnsweredAtSubmit /\ out'.request[2] # "missing_input")
          => out'.result = Error("Invalid credentials")]_vars

\* C17: a login whose identifier or secret is empty or missing is answered
\* InvalidCredentials in the step that submits it, with no store call (none
\* can fail, no row is written), and no login in progress has an empty
\* identifier or secret.
C17_MissingInputRejected ==
    [][/\ (Len(out'.request) = 2 /\ out'.request[2] = "missing_input")
             => /\ out'.result = Error("Invalid credentials")
                /\ LoginAnsweredAtSubmit
                /\ faults' = faults
                /\ sessions' = sessions
                /\ session_tokens' = session_tokens
       /\ \A l \in LoginProcs :
             lg'[l].pc # "idle"
                => lg'[l].identifier # "" /\ lg'[l].password # ""]_vars

\* A login with a missing field has been refused while the store could
\* still have failed a call.
C17_Witness ==
    /\ out.request = <<"login", "missing_input">>
    /\ out.result = Error("Invalid credentials")
    /\ faults < MaxFaults

\* Session sid has no RefreshToken row, before and after the step.
Orphaned(sid) ==
    \A i \in DOMAIN session_tokens : session_tokens[i].session_id # sid

OrphanedAfter(sid) ==
    \A i \in DOMAIN session_tokens' : session_tokens'[i].session_id # sid

\* C18: a login that ends with its session created and no refresh token
\* stored returns a failure carrying no tokens; and while a session has no
\* RefreshToken row, no rotation is at work on it, no step changes its row,
\* and no rotation returns success for it.
C18_OrphanedSessionUnusable ==
    [][/\ \A l \in LoginProcs :
             (/\ lg[l].pc = "token"
              /\ lg'[l].pc = "idle"
              /\ OrphanedAfter(lg[l].session.id))
                => /\ ~out'.result.ok
                   /\ DOMAIN out'.result.payload
                         \cap {"access_token", "refresh_token"} = {}
       /\ \A sid \in DOMAIN sessions :
             Orphaned(sid)
                => /\ sessions'[sid] = sessions[sid]
                   /\ \A p \in RefreshProcs :
                         /\ rq'[p].pc # "idle"
                               => rq'[p].token_row.session_id # sid
                         /\ (Ends(p) /\ out'.result.ok)
                               => rq[p].token_row.session_id # sid
       /\ (Len(out'.request) = 1 /\ out'.result.ok)
             => \E p \in RefreshProcs : Ends(p)]_vars

\* A login has left an orphaned session behind, and a rotation presenting
\* the secret drawn for the token that was never stored has been refused.
C18_Witness ==
    /\ \E sid \in DOMAIN sessions : Orphaned(sid)
    /\ issued > 0
    /\ \A l \in LoginProcs : lg[l].pc = "idle"
    /\ out.request = <<issued>>
    /\ out.result = Error("Invalid refresh token")

\* C19: the raw refresh secret is never persisted: the token_hash of every
\* RefreshToken row, whether login or a rotation wrote it, is the hex SHA-256
\* digest of a secret that was drawn, the rows have no other column that
\* could hold a secret, and no row of the sessions table has one either.
C19_SecretNeverPersisted ==
    /\ \A i \in DOMAIN session_tokens :
          /\ session_tokens[i].token_hash
                \in {Hex(Sha256(k)) : k \in 1..issued}
          /\ DOMAIN session_tokens[i]
                = {"id", "session_id", "token_hash", "expires_at", "used_at",
                   "revoked_at"}
    /\ \A sid \in DOMAIN sessions :
          DOMAIN sessions[sid]
              = {"id", "user_id", "last_used_at", "expires_at", "revoked_at"}

\* The store holds a token written by login and one written by a rotation.
C19_Witness ==
    /\ Len(session_tokens) >= 2
    /\ \E p \in RefreshProcs :
          rq[p].pc = "touch" /\ rq[p].new_refresh = Len(session_tokens)

\* A signed token that PostgREST accepts as the backend's credential.
IsServiceToken(token) ==
    /\ token["iss"] = <<"medilink-backend">>
    /\ token["role"] = <<"medilink_ops">>

C21_StoreFailureEndsInErrorResult ==
    [][(Len(out'.request) \in {1, 2} /\ faults' # faults)
          => out'.result.kind = "return" /\ ~out'.result.ok]_vars

\* C22: the payload refresh() returns for a refresh token that is unknown to
\* the store and the payload it returns for a stored, unused refresh token
\* that is past its expiry are the same.
C22_UnknownAndExpiredAlike ==
    \A i \in DOMAIN session_tokens :
        (~TokenSpent(session_tokens[i]) /\ TokenExpired(session_tokens[i]))
            => TokenValidityFailure("ok", <<session_tokens[i]>>).payload
                 = TokenValidityFailure("ok", <<>>).payload

\* The ids of the rows of a table.
Ids(table) == {table[i].id : i \in DOMAIN table}

\* C23: no step of a login or a rotation deletes a session row or a
\* refresh-token row: the set of session ids and the set of refresh-token ids
\* in the store only grow.
C23_RowsNeverDeleted ==
    [][/\ Ids(sessions) \subseteq Ids(sessions')
       /\ Ids(session_tokens) \subseteq Ids(session_tokens')]_vars

\* A rotation has spent the login's token and minted its successor, and a
\* replay has revoked the session: all three rows are still stored.
C23_Witness ==
    /\ Ids(sessions) = {1}
    /\ Ids(session_tokens) = {1, 2}
    /\ session_tokens[1].used_at # NULL
    /\ sessions[1].revoked_at # NULL

\* The stored row of the token that request p presented.
Presented(p) ==
    CHOOSE i \in DOMAIN session_tokens :
        session_tokens[i].token_hash = Hex(_hash_token(rq[p].refresh_token))

\* Request p stores a new refresh token in this step.
Mints(p) ==
    /\ rq[p].pc = "create" /\ rq'[p].pc = "touch"
    /\ Len(session_tokens') = Len(session_tokens) + 1

\* C24: no step changes the session_id of a stored refresh token, and the
\* token a rotation creates has the session_id of the token presented to it.
C24_TokenKeepsItsSession ==
    [][/\ \A i \in DOMAIN session_tokens :
              session_tokens'[i].session_id = session_tokens[i].session_id
       /\ \A p \in RefreshProcs :
              Mints(p) =>
                  session_tokens'[Len(session_tokens')].session_id
                      = session_tokens[Presented(p)].session_id]_vars

\* Two sessions are stored, and a rotation of the first session's token has
\* minted its successor after the second login.
C24_Witness ==
    /\ Len(sessions) = 2
    /\ Len(session_tokens) = 3
    /\ session_tokens[1].session_id = 1
    /\ session_tokens[2].session_id = 2
    /\ session_tokens[3].session_id = 1

\* C25: no step of a rotation, whether the rotation succeeds or fails, changes
\* the expires_at of a session: every stored session keeps the value its login
\* gave it.
C25_SessionExpiryFixed ==
    [][\A sid \in DOMAIN sessions :
          sessions'[sid].expires_at = sessions[sid].expires_at]_vars

\* A rotation that began before the clock moved has written the session's
\* last_used_at at a later time than the login that set expires_at.
C25_Witness ==
    \E sid \in DOMAIN sessions :
        /\ _parse_timestamp(sessions[sid].last_used_at) = now
        /\ _parse_timestamp(sessions[sid].expires_at)
               < now + REFRESH_TOKEN_TTL_DAYS
        /\ Len(out.request) = 1
        /\ out.result = Raise("TypeError")

\* C26: a rotation that ends without returning success to its caller has not
\* changed the last_used_at of any session in its last step (the only step of
\* refresh() that writes last_used_at), and a rotation that returns success
\* has set the last_used_at of its session to the time of that step.
C26_LastUsedOnlyOnSuccess ==
    [][\A p \in RefreshProcs :
          (Ends(p) /\ Len(out'.request) = 1) =>
              IF out'.result.ok
                THEN sessions'[rq[p].session.id].last_used_at = _now_utc
                ELSE \A sid \in DOMAIN sessions :
                         sessions'[sid].last_used_at
                             = sessions[sid].last_used_at]_vars

\* C27: a rotation that has passed every check and whose store calls were all
\* answered ends with success, and the access token it returns carries the
\* role stored for the user at that time and the session id of the presented
\* token.
C27_RotationTokenRoleAndSession ==
    [][\A p \in RefreshProcs :
          (rq[p].pc = "touch" /\ Ends(p) /\ StoreAnswered) =>
              /\ out'.result.ok
              /\ LET token == out'.result.payload.access_token
                     user == users_by_id(
                                 sessions[session_tokens[Presented(p)]
                                              .session_id].user_id)[1]
                 IN  /\ token["role"] = <<user.p_role>>
                     /\ "session_id" \in DOMAIN token
                     /\ token["session_id"]
                            = <<session_tokens[Presented(p)].session_id>>]_vars

\* A stored token that is both spent (used or revoked) and past its expiry.
SpentAndExpired(row) == TokenSpent(row) /\ TokenExpired(row)

\* C28: a rotation that presents a token that is both spent and past its
\* expiry is handled as a replay: the lookup does not answer it (so never with
\* "Refresh token expired"), and the result the rotation then returns is the
\* reuse error, with the owning session revoked.
C28_ReplayBeforeExpiry ==
    [][/\ (AnsweredAtLookup /\ StoreAnswered) =>
              \A i \in DOMAIN session_tokens :
                  session_tokens[i].token_hash
                      = Hex(_hash_token(out'.request[1]))
                    => ~SpentAndExpired(session_tokens[i])
       /\ \A p \in RefreshProcs :
              (/\ rq[p].pc = "revoke"
               /\ Ends(p)
               /\ out'.result.kind = "return"
               /\ SpentAndExpired(session_tokens[Presented(p)])) =>
                  /\ out'.result = ReuseError
                  /\ sessions'[session_tokens[Presented(p)].session_id]
                         .revoked_at # NULL]_vars

\* Request p passes the token check in this step and goes on to the session
\* check, the only way of a rotation to its success.
PassesTokenCheck(p) == rq[p].pc = "idle" /\ rq'[p].pc = "session"

\* C29: a rotation passes its token check, and so can come to rotate the
\* token, only if the presented token is ACTIVE when it is read: used_at
\* null, revoked_at null and expires_at strictly after the current time.
C29_OnlyActiveTokenRotates ==
    [][\A p \in RefreshProcs :
          PassesTokenCheck(p) =>
              \A i \in DOMAIN session_tokens :
                  session_tokens[i].token_hash
                      = Hex(_hash_token(rq'[p].refresh_token))
                    => Active(session_tokens[i])]_vars

\* C30: whenever a refresh-token row is stored, by a login or by a rotation,
\* the session it is created under has revoked_at null at that moment, also
\* when another request revoked the session after the creating rotation had
\* checked it.
C30_NoTokenUnderRevokedSession ==
    [][Len(session_tokens') = Len(session_tokens) + 1 =>
          sessions[session_tokens'[Len(session_tokens')].session_id]
              .revoked_at = NULL]_vars

\* C31: a rotation that has stored its new refresh token and whose remaining
\* store call is answered ends by returning success with that token's raw
\* secret, so the new ACTIVE row is never left without a holder.
C31_NoTokenLost ==
    [][\A p \in RefreshProcs :
          (rq[p].pc = "touch" /\ Ends(p) /\ StoreAnswered) =>
              /\ out'.result.ok
              /\ out'.result.payload.refresh_token = rq[p].new_refresh]_vars

\* C32: whenever a rotation returns 'Session revoked due to token reuse', the
\* session that owns the presented token has revoked_at set in the store at
\* that moment, whatever the store answered to the revoking write.
C32_ReuseAnswerMeansRevoked ==
    [][\A p \in RefreshProcs :
          (Ends(p) /\ out'.result = ReuseError) =>
              sessions'[session_tokens'[Presented(p)].session_id]
                  .revoked_at # NULL]_vars

\* C33: a login that is refused at input validation, at the user lookup or at
\* the password check leaves the store as it was: no session row and no
\* refresh-token row is created or changed by it.
C33_FailedLoginWritesNothing ==
    [][(LoginAnsweredAtSubmit /\ ~out'.result.ok)
          => sessions' = sessions /\ session_tokens' = session_tokens]_vars

\* A login with a wrong password for a known user has been refused, the
\* store having answered the lookup, while no session is stored.
C33_Witness ==
    /\ out.request = <<"login", "wrong_secret">>
    /\ out.result = Error("Invalid credentials")
    /\ faults = 0
    /\ sessions = <<>>
    /\ session_tokens = <<>>

\* C34: whenever a login or a rotation stores a refresh token, the token_hash
\* of the stored row is the lookup key refresh() computes for the raw secret
\* generated with it, and no other row has that key: a rotation presenting
\* the secret finds this row.
C34_DigestRoundTrip ==
    [][Len(session_tokens') = Len(session_tokens) + 1 =>
          LET row == session_tokens'[Len(session_tokens')]
              key == Hex(_hash_token(issued'))
          IN  /\ row.token_hash = key
              /\ \A j \in DOMAIN session_tokens :
                     session_tokens[j].token_hash # key]_vars

\* The login's token was found and spent by a rotation, and the token that
\* rotation minted was found and spent by the next one.
C34_Witness ==
    /\ Len(session_tokens) >= 2
    /\ session_tokens[1].used_at # NULL
    /\ session_tokens[2].used_at # NULL

\* Request p, past its lookup, takes a step.
Steps(p) == rq[p].pc # "idle" /\ rq'[p] # rq[p]

\* C35: a step of a rotation or replay that presented a token of session A
\* leaves the session row and every refresh-token row of every other session
\* as they were, whatever else is going on at the other sessions.
C35_SessionsIsolated ==
    [][\A p \in RefreshProcs :
          Steps(p) =>
              LET A == session_tokens[Presented(p)].session_id
              IN  /\ \A sid \in DOMAIN sessions \ {A} :
                         sessions'[sid] = sessions[sid]
                  /\ \A i \in DOMAIN session_tokens :
                         session_tokens[i].session_id # A
                             => session_tokens'[i] = session_tokens[i]]_vars

\* A replay has just revoked the first session while the other client is in
\* the middle of rotating a token of the second, which is untouched.
C35_Witness ==
    /\ Len(sessions) = 2
    /\ Len(out.request) = 1
    /\ out.result = ReuseError
    /\ sessions[1].revoked_at # NULL
    /\ sessions[2].revoked_at = NULL
    /\ \E q \in RefreshProcs :
           /\ rq[q].pc \in {"mark", "create", "touch"}
           /\ rq[q].token_row.session_id = 2

\* The answer given in this step hands a refresh secret to the caller.
ReturnsSecret == "refresh_token" \in DOMAIN out'.result.payload

\* C36: an answer of a login or a rotation that carries a refresh secret is
\* given only when the row of that secret is in the store; a login or a
\* rotation whose token insert the store did not answer with 201 ends at that
\* step and hands out no refresh secret.
C36_ReturnedSecretIsStored ==
    [][/\ ReturnsSecret =>
              \E i \in DOMAIN session_tokens' :
                  session_tokens'[i].token_hash
                      = Hex(_hash_token(out'.result.payload.refresh_token))
       /\ \A l \in LoginProcs :
              (/\ lg[l].pc = "token"
               /\ lg'[l] # lg[l]
               /\ session_tokens' = session_tokens)
                  => lg'[l].pc = "idle" /\ ~ReturnsSecret
       /\ \A p \in RefreshProcs :
              (/\ rq[p].pc = "create"
               /\ rq'[p] # rq[p]
               /\ session_tokens' = session_tokens)
                  => rq'[p].pc = "idle" /\ ~ReturnsSecret]_vars

\* The store has refused a login's token insert: the login has ended with
\* the failure and its details, without tokens, and no row was stored.
C36_Witness ==
    /\ Len(out.request) = 2
    /\ out.result = ErrorWithDetails("Token creation failed")
    /\ session_tokens = <<>>
    /\ issued = 1

\* C37: a registration whose primary_role is missing or is not one of
\* ALLOWED_P_ROLES is refused by validation with the p_role error: it is
\* answered 400 without a store call, no user row is posted and the answer
\* carries no token; and every user row in the store has an allowed role.
C37_RoleWhitelist ==
    [][/\ (Len(out'.request) = 3 /\ out'.request[2] \notin ALLOWED_P_ROLES)
             => /\ "p_role" \in out'.request[3]
                /\ out'.result = JsonResponse(
                       [error |-> "Registration failed",
                        details |-> [k \in out'.request[3] |->
                                        ErrorMessages[k]]], 400)
                /\ registered' = registered
                /\ faults' = faults
       /\ \A i \in DOMAIN registered' :
             registered'[i].p_role \in ALLOWED_P_ROLES]_vars

\* A registration asking for a role outside the whitelist, and otherwise
\* valid, has been refused while the store could still take a user.
C37_Witness ==
    /\ out.request = <<"register", "superuser", {"p_role"}>>
    /\ out.result.status = 400
    /\ registered = <<>>

\* C38: the answer of get_appointment to a request of an authenticated user
\* for a stored appointment that the store hands over is 200 with the
\* appointment exactly when the user's id is the appointment's patient_id or
\* doctor_id, and 403 without it for every other user; no answer of the view
\* carries an appointment otherwise.
C38_OnlyParticipantsSee ==
    [][(Len(out'.request) = 4) =>
          LET header == out'.request[2]
              id == out'.request[3]
              resp == out'.result
              fetched == /\ header # <<>>
                         /\ out'.request[4] = "ok"
                         /\ id \in DOMAIN appointments
              participant ==
                  \/ appointments[id].patient_id = header[1]["sub"][1]
                  \/ appointments[id].doctor_id = header[1]["sub"][1]
          IN  /\ "appointment" \in DOMAIN resp.payload
                    => /\ fetched /\ participant
                       /\ resp.status = 200
                       /\ resp.payload.appointment = appointments[id]
              /\ fetched /\ participant
                    => "appointment" \in DOMAIN resp.payload
              /\ fetched /\ ~participant
                    => resp.status = 403]_vars

\* A user who is neither the patient nor the doctor of a stored appointment
\* has asked for it, with the store answering, and has been refused.
C38_Witness ==
    /\ Len(out.request) = 4
    /\ out.request[4] = "ok"
    /\ out.request[3] \in DOMAIN appointments
    /\ out.request[2] # <<>>
    /\ appointments[out.request[3]].patient_id # out.request[2][1]["sub"][1]
    /\ appointments[out.request[3]].doctor_id # out.request[2][1]["sub"][1]
    /\ out.result.status = 403

====
